---- MODULE Spec2Model ----
(***************************************************************************)
(* Proximity (src/app.js): peer registry (connectedPeers), the IndexedDB   *)
(* message log, local send with fan-out (sendMessage) and the inbound      *)
(* notification handler (handleIncomingMessage), as one state machine.     *)
(* Every suspension point of the async functions (await, IndexedDB request *)
(* callbacks) is a separate step; the code between two suspension points   *)
(* runs atomically, as it does on the single JavaScript thread.            *)
(***************************************************************************)
EXTENDS Integers, Sequences, FiniteSets, TLC

\* ---------------------------------------------------------------- bounds
MaxSends == 1      \* sendMessage invocations per page session
MaxScans == 2      \* scanForPeers invocations per page session
MaxStore == 2      \* records the storage quota admits
MaxQueue == 1      \* inbound notifications accepted while an add is pending

Devices    == {"d1", "d2"}
LocalNames == {"alice"}
Senders    == {"alice", "bob"}
Timestamps == {1, 2}
Ids        == {1, 2}
SendIds    == 1..MaxSends
\* sendMessage invocations that can be in progress in one session
SendSlots  == 1..(MaxSends + 1)
ScanIds    == 1..MaxScans

\* strings are sequences of characters, so that trim() is computed
Hi     == <<"h">>
Inputs == {<< >>, <<" ">>, Hi, <<" ", "h">>}

\* the value every absent property of a JavaScript object reads as
Undefined == "undefined"

VARIABLES
    dbState,         \* indexedDB.open request: "opening", "open", "error"
    userProfile,     \* let userProfile = {}
    profileStore,    \* object store 'profile'
    profileReq,      \* loadProfile's store.get(1): "none", "pending", "done"
    messages,        \* object store 'messages', records in append order
    keyGen,          \* the store's key generator (autoIncrement)
    cursor,          \* loadMessages' index cursor
    addQueue,        \* store.add requests not yet completed, oldest first
    feed,            \* bubbles appended to messageFeed, oldest first
    connectedPeers,  \* the Map, entries in insertion order
    linkUp,          \* devices whose GATT link is open
    subscribed,      \* devices whose characteristic notifies handleIncomingMessage
    discListeners,   \* devices carrying a 'gattserverdisconnected' listener
    scans,           \* scanForPeers invocations
    sends,           \* sendMessage invocations
    writes,          \* writeValue calls issued, oldest first
    failures,        \* console.error lines of the broadcast loop
    inboundLog       \* what the last handleIncomingMessage call did

vars == <<dbState, userProfile, profileStore, profileReq, messages, keyGen,
          cursor, addQueue, feed, connectedPeers, linkUp, subscribed,
          discListeners, scans, sends, writes, failures, inboundLog>>

storeVars == <<messages, keyGen, feed, addQueue>>
startVars == <<dbState, userProfile, profileStore, profileReq, cursor>>
linkVars  == <<connectedPeers, linkUp, subscribed, discListeners, scans>>
sendVars  == <<sends, writes, failures>>

\* ------------------------------------------------------- JavaScript objects
Has(o, f) == f \in DOMAIN o
Get(o, f) == IF Has(o, f) THEN o[f] ELSE Undefined
Put(o, f, v) == [k \in DOMAIN o \cup {f} |-> IF k = f THEN v ELSE o[k]]

IsSpace(c) == c = " "

RECURSIVE TrimStart(_)
TrimStart(s) ==
    IF s # << >> /\ IsSpace(Head(s)) THEN TrimStart(Tail(s)) ELSE s

RECURSIVE TrimEnd(_)
TrimEnd(s) ==
    IF s # << >> /\ IsSpace(s[Len(s)]) THEN TrimEnd(SubSeq(s, 1, Len(s) - 1)) ELSE s

TrimNothing(s) == s

Trim(s) == TrimEnd(TrimStart(s))

\* --------------------------------------------------------------- wire format
\* A payload is the JSON text: the sequence of its name/value pairs and
\* whether the closing brace arrived; 'null' and a bare number are texts too.
FieldOrder == <<"sender", "text", "timestamp", "id">>

RECURSIVE PairsOf(_, _)
PairsOf(o, names) ==
    IF names = << >> THEN << >>
    ELSE IF Has(o, Head(names))
         THEN <<<<Head(names), o[Head(names)]>>>> \o PairsOf(o, Tail(names))
         ELSE PairsOf(o, Tail(names))

JSONstringify(o) ==
    [kind |-> "object", pairs |-> PairsOf(o, FieldOrder), closed |-> TRUE]

RECURSIVE ObjectOf(_)
ObjectOf(pairs) ==
    IF Len(pairs) = 1
    THEN [k \in {pairs[1][1]} |-> pairs[1][2]]
    ELSE Put(ObjectOf(SubSeq(pairs, 1, Len(pairs) - 1)),
             pairs[Len(pairs)][1], pairs[Len(pairs)][2])

\* JSON.parse: throws on a text that is cut short
JSONparse(p) ==
    IF p.kind = "null" THEN [kind |-> "null"]
    ELSE IF p.kind = "number" THEN [kind |-> "primitive"]
    ELSE IF p.closed THEN [kind |-> "object", value |-> ObjectOf(p.pairs)]
    ELSE [kind |-> "throw"]

Truncate(p, n) == [kind |-> "object", pairs |-> SubSeq(p.pairs, 1, n), closed |-> FALSE]

MsgWithId(s, x, t) == [sender |-> s, text |-> x, timestamp |-> t, id |-> t]

Msg(s, x, t) == [sender |-> s, text |-> x, timestamp |-> t]

\* the payloads a peer delivers
Payloads ==
    {JSONstringify(Msg(s, Hi, t)) : s \in Senders, t \in Timestamps}
    \cup {JSONstringify(Put(Msg("bob", Hi, 1), "id", k)) : k \in Ids}
    \cup {Truncate(JSONstringify(Msg("bob", Hi, 1)), 2)}
    \cup {JSONstringify([text |-> Hi]), JSONstringify([sender |-> "bob", text |-> Hi])}
    \cup {[kind |-> "null"], [kind |-> "number"]}

\* ------------------------------------------------------------- the registry
\* Map keeps its entries in insertion order; delete leaves a hole that a
\* running iterator steps over, set on a present key replaces the value in place.
Empty == [id |-> "", link |-> 0]

MapIndex(d) == {i \in 1..Len(connectedPeers) : connectedPeers[i].id = d}
MapHas(d) == MapIndex(d) # {}
MapSize == Cardinality({i \in 1..Len(connectedPeers) : connectedPeers[i] # Empty})

MapSetAppend(d, v) == Append(connectedPeers, v)

MapSet(d, v) ==
    IF MapHas(d)
    THEN [i \in 1..Len(connectedPeers) |->
             IF connectedPeers[i].id = d THEN v ELSE connectedPeers[i]]
    ELSE Append(connectedPeers, v)

MapDelete(d) ==
    [i \in 1..Len(connectedPeers) |->
        IF connectedPeers[i].id = d THEN Empty ELSE connectedPeers[i]]

\* the iterator's next entry after position i, 0 when it is exhausted
NextLive(map, i) ==
    LET later == {j \in 1..Len(map) : j > i /\ map[j] # Empty}
    IN IF later = {} THEN 0 ELSE CHOOSE j \in later : \A k \in later : j <= k

\* ------------------------------------------------------------ message store
HasKey(k) == \E i \in 1..Len(messages) : messages[i].id = k

\* store.add on { keyPath: 'id', autoIncrement: true }: a value that carries
\* the key path keeps its own key, otherwise the generator supplies it
StoreAdd(value) ==
    IF Has(value, "id")
    THEN [ok |-> ~HasKey(value.id), record |-> value,
          gen |-> IF value.id >= keyGen THEN value.id + 1 ELSE keyGen]
    ELSE [ok |-> TRUE, record |-> Put(value, "id", keyGen), gen |-> keyGen + 1]

\* index 'timestamp': one entry per record that has the key path, ordered by
\* index key and then by primary key
IndexKeyById(m) == <<m.id, m.id>>

IndexKey(m) == <<m.timestamp, m.id>>

IndexEntries ==
    {IndexKey(messages[i]) : i \in {j \in 1..Len(messages) : Has(messages[j], "timestamp")}}

KeyLess(a, b) == a[1] < b[1] \/ (a[1] = b[1] /\ a[2] < b[2])

CursorAhead ==
    IF cursor.pos = << >> THEN IndexEntries
    ELSE {e \in IndexEntries : KeyLess(cursor.pos, e)}

RecordOf(k) == messages[CHOOSE i \in 1..Len(messages) : messages[i].id = k]

\* renderMessage: the bubble's class and the message it shows
renderMessage(message, isMeOverride) ==
    [msg |-> message,
     me  |-> IF isMeOverride # "null" THEN isMeOverride = "true"
             ELSE Get(message, "sender") = userProfile.username]

Bubble(message, isMeOverride, via) ==
    [msg |-> message, me |-> renderMessage(message, isMeOverride).me, via |-> via]

\* ---------------------------------------------------------------- initial
EmptyProfile == [username |-> Undefined]
NoMessage == [sender |-> Undefined]
NoPeer == Empty

\* device is kept only while the invocation is suspended in an await
IdleScan == [pc |-> "idle", device |-> ""]
IdleSend == [pc |-> "idle", message |-> NoMessage, peer |-> NoPeer, cur |-> 0,
             saved |-> "none"]

\* what a page load starts from; the two object stores survive it
Volatile ==
    /\ dbState = "opening"
    /\ userProfile = EmptyProfile
    /\ profileReq = "none"
    /\ cursor = [state |-> "none", pos |-> << >>]
    /\ addQueue = << >>
    /\ feed = << >>
    /\ connectedPeers = << >>
    /\ linkUp = {}
    /\ subscribed = {}
    /\ discListeners = {}
    /\ scans = [a \in ScanIds |-> IdleScan]
    /\ sends = [s \in SendSlots |-> IdleSend]
    /\ writes = << >>
    /\ failures = << >>
    /\ inboundLog = "none"

Init ==
    /\ Volatile
    /\ profileStore = {}
    /\ messages = << >>
    /\ keyGen = 1

\* ---------------------------------------------------------------- startup
\* request.onsuccess of indexedDB.open: loadProfile(); loadMessages()
initDBSuccess ==
    /\ dbState = "opening"
    /\ dbState' = "open"
    /\ profileReq' = "pending"
    /\ cursor' = [state |-> "open", pos |-> << >>]
    /\ UNCHANGED <<userProfile, profileStore, storeVars, linkVars, sendVars, inboundLog>>

\* request.onerror
initDBError ==
    /\ dbState = "opening"
    /\ dbState' = "error"
    /\ UNCHANGED <<userProfile, profileStore, profileReq, cursor, storeVars,
                   linkVars, sendVars, inboundLog>>

\* saveProfile, reached from promptForUsername once the name is not blank
saveProfile(username) == [id |-> 1, username |-> username]

\* loadProfile's request.onsuccess
loadProfileSuccess ==
    /\ profileReq = "pending"
    /\ profileReq' = "done"
    /\ IF profileStore # {}
       THEN /\ userProfile' = CHOOSE p \in profileStore : TRUE
            /\ UNCHANGED profileStore
       ELSE \E u \in LocalNames :
            /\ userProfile' = saveProfile(u)
            /\ profileStore' = {saveProfile(u)}
    /\ UNCHANGED <<dbState, cursor, storeVars, linkVars, sendVars, inboundLog>>

\* loadMessages: one onsuccess event of index.openCursor()
loadMessagesStep ==
    /\ cursor.state = "open"
    /\ IF CursorAhead # {}
       THEN LET e == CHOOSE x \in CursorAhead : \A y \in CursorAhead : x = y \/ KeyLess(x, y)
            IN /\ feed' = Append(feed, Bubble(RecordOf(e[2]), "null", "load"))
               /\ cursor' = [state |-> "open", pos |-> e]
       ELSE /\ cursor' = [state |-> "done", pos |-> cursor.pos]
            /\ UNCHANGED feed
    /\ UNCHANGED <<dbState, userProfile, profileStore, profileReq, messages, keyGen,
                   addQueue, linkVars, sendVars, inboundLog>>

\* ------------------------------------------------------ saveAndRenderMessage
\* the call itself: db.transaction throws when db is still undefined
saveAndRenderMessageIfPeers(message, isMe, send) ==
    IF MapSize = 0 THEN addQueue
    ELSE Append(addQueue, [message |-> message, isMe |-> isMe, send |-> send])

saveAndRenderMessage(message, isMe, send) ==
    Append(addQueue, [message |-> message, isMe |-> isMe, send |-> send])

MarkSaved(s, how) ==
    IF s = 0 THEN sends ELSE [sends EXCEPT ![s].saved = how]

AddFailedRenders(req) == Append(feed, Bubble(req.message, req.isMe, "save"))

\* request.onerror: only console.error
AddFailed(req) == feed

\* request.onsuccess = () => renderMessage(message, isMe); the readwrite
\* transaction starts only after loadMessages' readonly one has finished
addSuccessLatest ==
    /\ addQueue # << >>
    /\ cursor.state = "done"
    /\ Len(messages) < MaxStore
    /\ LET req == addQueue[Len(addQueue)]
           res == StoreAdd(req.message)
       IN /\ res.ok
          /\ messages' = Append(messages, res.record)
          /\ keyGen' = res.gen
          /\ feed' = Append(feed, Bubble(req.message, req.isMe, "save"))
          /\ sends' = MarkSaved(req.send, "stored")
    /\ addQueue' = SubSeq(addQueue, 1, Len(addQueue) - 1)
    /\ UNCHANGED <<startVars, linkVars, writes, failures, inboundLog>>

addSuccess ==
    /\ addQueue # << >>
    /\ cursor.state = "done"
    /\ Len(messages) < MaxStore
    /\ LET req == Head(addQueue)
           res == StoreAdd(req.message)
       IN /\ res.ok
          /\ messages' = Append(messages, res.record)
          /\ keyGen' = res.gen
          /\ feed' = Append(feed, Bubble(req.message, req.isMe, "save"))
          /\ sends' = MarkSaved(req.send, "stored")
    /\ addQueue' = Tail(addQueue)
    /\ UNCHANGED <<startVars, linkVars, writes, failures, inboundLog>>

\* request.onerror: key already present, quota exceeded, I/O failure
addError ==
    /\ addQueue # << >>
    /\ cursor.state = "done"
    /\ LET req == Head(addQueue)
       IN /\ feed' = AddFailed(req)
          /\ sends' = MarkSaved(req.send, "failed")
    /\ addQueue' = Tail(addQueue)
    /\ UNCHANGED <<startVars, messages, keyGen, linkVars, writes, failures, inboundLog>>

\* ----------------------------------------------------- handleIncomingMessage
IsEchoNever(message) == FALSE

\* message.sender !== userProfile.username fails
IsEcho(message) == Get(message, "sender") = userProfile.username

\* outcome of one call: "error" (the catch branch), "echo" (dropped by the
\* sender test) or "saved" (store.add requested)
Handle(p) ==
    LET r == JSONparse(p)
    IN IF r.kind \in {"throw", "null"} THEN "error"
       ELSE IF r.kind = "primitive"
            THEN IF userProfile.username = Undefined THEN "echo" ELSE "error"
            ELSE IF IsEcho(r.value) THEN "echo"
                 ELSE IF dbState # "open" THEN "error" ELSE "saved"

handleIncomingMessage(d, p) ==
    /\ d \in subscribed
    /\ Len(addQueue) < MaxQueue
    /\ inboundLog' = Handle(p)
    /\ addQueue' = IF Handle(p) = "saved"
                   THEN saveAndRenderMessage(JSONparse(p).value, "false", 0)
                   ELSE addQueue
    /\ UNCHANGED <<startVars, messages, keyGen, feed, linkVars, sendVars>>

\* -------------------------------------------------------------- scanForPeers
SetScan(a, pc, d) == [scans EXCEPT ![a] = [pc |-> pc, device |-> d]]

\* the click handler up to await navigator.bluetooth.requestDevice(...)
scanForPeers(a) ==
    /\ scans[a].pc = "idle"
    /\ scans' = SetScan(a, "requesting", "")
    /\ UNCHANGED <<startVars, storeVars, connectedPeers, linkUp, subscribed,
                   discListeners, sendVars, inboundLog>>

AlreadyConnectedNever(d) == FALSE

\* connectedPeers.has(device.id)
AlreadyConnected(d) == MapHas(d)

\* requestDevice resolves; the has() test; device.gatt.connect() is called
deviceChosen(a, d) ==
    /\ scans[a].pc = "requesting"
    /\ scans' = IF AlreadyConnected(d) THEN SetScan(a, "already", "")
                                        ELSE SetScan(a, "connecting", d)
    /\ UNCHANGED <<startVars, storeVars, connectedPeers, linkUp, subscribed,
                   discListeners, sendVars, inboundLog>>

\* device.gatt.connect() resolves; getPrimaryService is called
gattConnectedRegisters(a) ==
    /\ scans[a].pc = "connecting"
    /\ linkUp' = linkUp \cup {scans[a].device}
    /\ connectedPeers' = MapSet(scans[a].device, [id |-> scans[a].device, link |-> a])
    /\ scans' = SetScan(a, "service", scans[a].device)
    /\ UNCHANGED <<startVars, storeVars, subscribed,
                   discListeners, sendVars, inboundLog>>

gattConnected(a) ==
    /\ scans[a].pc = "connecting"
    /\ linkUp' = linkUp \cup {scans[a].device}
    /\ scans' = SetScan(a, "service", scans[a].device)
    /\ UNCHANGED <<startVars, storeVars, connectedPeers, subscribed,
                   discListeners, sendVars, inboundLog>>

\* getPrimaryService resolves; getCharacteristic is called
serviceFound(a) ==
    /\ scans[a].pc = "service"
    /\ scans[a].device \in linkUp
    /\ scans' = SetScan(a, "characteristic", scans[a].device)
    /\ UNCHANGED <<startVars, storeVars, connectedPeers, linkUp, subscribed,
                   discListeners, sendVars, inboundLog>>

\* getCharacteristic resolves; startNotifications is called
characteristicFound(a) ==
    /\ scans[a].pc = "characteristic"
    /\ scans[a].device \in linkUp
    /\ scans' = SetScan(a, "notify", scans[a].device)
    /\ UNCHANGED <<startVars, storeVars, connectedPeers, linkUp, subscribed,
                   discListeners, sendVars, inboundLog>>

\* startNotifications resolves: addEventListener, connectedPeers.set,
\* the 'gattserverdisconnected' listener
notificationsStarted(a) ==
    /\ scans[a].pc = "notify"
    /\ scans[a].device \in linkUp
    /\ subscribed' = subscribed \cup {scans[a].device}
    /\ connectedPeers' = MapSet(scans[a].device, [id |-> scans[a].device, link |-> a])
    /\ discListeners' = discListeners \cup {scans[a].device}
    /\ scans' = SetScan(a, "ready", "")
    /\ UNCHANGED <<startVars, storeVars, linkUp, sendVars, inboundLog>>

\* any of the awaited promises rejects: the catch block
scanFailedDeletes(a) ==
    /\ scans[a].pc \in {"requesting", "connecting", "service", "characteristic", "notify"}
    /\ scans' = SetScan(a, "failed", "")
    /\ connectedPeers' = MapDelete(scans[a].device)
    /\ UNCHANGED <<startVars, storeVars, linkUp, subscribed,
                   discListeners, sendVars, inboundLog>>

scanFailed(a) ==
    /\ scans[a].pc \in {"requesting", "connecting", "service", "characteristic", "notify"}
    /\ scans' = SetScan(a, "failed", "")
    /\ UNCHANGED <<startVars, storeVars, connectedPeers, linkUp, subscribed,
                   discListeners, sendVars, inboundLog>>

onDisconnectedKeeps(d) == connectedPeers

\* connectedPeers.delete(deviceId)
onDisconnected(d) == MapDelete(d)

\* the transport drops the link of d; its listeners, if any, run
gattServerDisconnected(d) ==
    /\ d \in linkUp
    /\ linkUp' = linkUp \ {d}
    /\ subscribed' = subscribed \ {d}
    /\ connectedPeers' = IF d \in discListeners THEN onDisconnected(d) ELSE connectedPeers
    /\ UNCHANGED <<startVars, storeVars, discListeners, scans, sendVars, inboundLog>>

\* --------------------------------------------------------------- sendMessage
WriteTo(s, message, peer) ==
    Append(writes, [send |-> s, to |-> peer.id, link |-> peer.link,
                    data |-> JSONstringify(message)])

\* the next turn of for (const peer of connectedPeers.values())
Continue(s) ==
    LET i == NextLive(connectedPeers, sends[s].cur)
    IN IF i = 0
       THEN /\ sends' = [sends EXCEPT ![s].pc = "done", ![s].cur = 0, ![s].peer = NoPeer]
            /\ UNCHANGED writes
       ELSE /\ sends' = [sends EXCEPT ![s].cur = i, ![s].peer = connectedPeers[i]]
            /\ writes' = WriteTo(s, sends[s].message, connectedPeers[i])

\* the click / Enter handler up to the first await
sendMessage(s, input, t) ==
    /\ sends[s].pc = "idle"
    /\ LET text == Trim(input)
       IN IF Len(text) = 0 \/ userProfile.username = Undefined
          THEN /\ sends' = [sends EXCEPT ![s].pc = "rejected"]
               /\ UNCHANGED <<addQueue, writes>>
          ELSE LET message == Msg(userProfile.username, text, t)
                   i == NextLive(connectedPeers, 0)
               IN /\ addQueue' = saveAndRenderMessage(message, "true", s)
                  /\ IF MapSize = 0
                     THEN /\ sends' = [sends EXCEPT ![s] =
                                 [@ EXCEPT !.pc = "done", !.message = message,
                                           !.saved = "pending"]]
                          /\ UNCHANGED writes
                     ELSE /\ sends' = [sends EXCEPT ![s] =
                                 [pc |-> "awaiting", message |-> message,
                                  peer |-> connectedPeers[i], cur |-> i,
                                  saved |-> "pending"]]
                          /\ writes' = WriteTo(s, message, connectedPeers[i])
    /\ UNCHANGED <<startVars, messages, keyGen, feed, linkVars, failures, inboundLog>>

WriteFailedEscapes(s) ==
    /\ sends' = [sends EXCEPT ![s].pc = "threw"]
    /\ UNCHANGED <<writes, failures>>

\* catch (error) { console.error(...) } and on to the next peer
WriteFailed(s) ==
    /\ failures' = Append(failures, [send |-> s, to |-> sends[s].peer.id])
    /\ Continue(s)

\* the awaited writeValue settles
writeDone(s, ok) ==
    /\ sends[s].pc = "awaiting"
    /\ ok => sends[s].peer.id \in linkUp
    /\ IF ok THEN /\ UNCHANGED failures
                  /\ Continue(s)
       ELSE WriteFailed(s)
    /\ UNCHANGED <<startVars, storeVars, linkVars, inboundLog>>

\* ------------------------------------------------------------------ reload
\* the page is loaded again: everything but the two object stores is rebuilt
pageReload ==
    /\ dbState # "opening"
    /\ dbState' = "opening"
    /\ userProfile' = EmptyProfile
    /\ profileReq' = "none"
    /\ cursor' = [state |-> "none", pos |-> << >>]
    /\ addQueue' = << >>
    /\ feed' = << >>
    /\ connectedPeers' = << >>
    /\ linkUp' = {}
    /\ subscribed' = {}
    /\ discListeners' = {}
    /\ scans' = [a \in ScanIds |-> IdleScan]
    /\ sends' = [s \in SendSlots |-> IdleSend]
    /\ writes' = << >>
    /\ failures' = << >>
    /\ inboundLog' = "none"
    /\ UNCHANGED <<profileStore, messages, keyGen>>

\* every event the page reacts to, with every input
Next ==
    \/ initDBSuccess
    \/ initDBError
    \/ loadProfileSuccess
    \/ loadMessagesStep
    \/ addSuccess
    \/ addError
    \/ \E d \in Devices, p \in Payloads : handleIncomingMessage(d, p)
    \/ \E a \in ScanIds : scanForPeers(a)
    \/ \E a \in ScanIds, d \in Devices : deviceChosen(a, d)
    \/ \E a \in ScanIds : gattConnected(a)
    \/ \E a \in ScanIds : serviceFound(a)
    \/ \E a \in ScanIds : characteristicFound(a)
    \/ \E a \in ScanIds : notificationsStarted(a)
    \/ \E a \in ScanIds : scanFailed(a)
    \/ \E d \in Devices : gattServerDisconnected(d)
    \/ \E s \in SendIds, input \in Inputs, t \in Timestamps : sendMessage(s, input, t)
    \/ \E s \in SendIds, ok \in BOOLEAN : writeDone(s, ok)
    \/ pageReload

Spec == Init /\ [][Next]_vars

\* ------------------------------------------------------ the parts, separately
\* The product of all invocations is beyond exhaustive search, so each part of
\* the program is explored with its own invocations in full and one
\* representative of the others.

\* The registry: every scan of a session, link loss, one send, one reading of
\* the clock, no inbound notification and no reload.
LinkSends == {1}
LinkTimes == {1}

NextLink ==
    \/ initDBSuccess
    \/ initDBError
    \/ loadProfileSuccess
    \/ loadMessagesStep
    \/ addSuccess
    \/ addError
    \/ \E a \in ScanIds : scanForPeers(a)
    \/ \E a \in ScanIds, d \in Devices : deviceChosen(a, d)
    \/ \E a \in ScanIds : gattConnected(a)
    \/ \E a \in ScanIds : serviceFound(a)
    \/ \E a \in ScanIds : characteristicFound(a)
    \/ \E a \in ScanIds : notificationsStarted(a)
    \/ \E a \in ScanIds : scanFailed(a)
    \/ \E d \in Devices : gattServerDisconnected(d)
    \/ \E s \in LinkSends, input \in Inputs, t \in LinkTimes : sendMessage(s, input, t)
    \/ \E s \in LinkSends, ok \in BOOLEAN : writeDone(s, ok)

SpecLink == Init /\ [][NextLink]_vars

\* The fan-out: every send of a session, two scans (one per device), link
\* loss, one reading of the clock, no inbound notification and no reload.
CastScans == {1, 2}

NextCast ==
    \/ initDBSuccess
    \/ initDBError
    \/ loadProfileSuccess
    \/ loadMessagesStep
    \/ addSuccess
    \/ addError
    \/ \E a \in CastScans : scanForPeers(a)
    \/ \E a \in CastScans, d \in Devices : deviceChosen(a, d)
    \/ \E a \in CastScans : gattConnected(a)
    \/ \E a \in CastScans : serviceFound(a)
    \/ \E a \in CastScans : characteristicFound(a)
    \/ \E a \in CastScans : notificationsStarted(a)
    \/ \E a \in CastScans : scanFailed(a)
    \/ \E d \in Devices : gattServerDisconnected(d)
    \/ \E s \in SendIds, input \in Inputs, t \in LinkTimes : sendMessage(s, input, t)
    \/ \E s \in SendIds, ok \in BOOLEAN : writeDone(s, ok)

SpecCast == Init /\ [][NextCast]_vars

\* The message log within one page load: every kind of payload at one
\* timestamp, one reading of the clock, one peer, one scan and one send.
StorePayloads == {p \in Payloads : p.kind = "object" => \A i \in 1..Len(p.pairs) :
                                        p.pairs[i][1] = "timestamp" => p.pairs[i][2] = 1}
StoreDevices == {"d1"}
StoreScans == {1}
StoreSends == {1}

NextStore ==
    \/ initDBSuccess
    \/ initDBError
    \/ loadProfileSuccess
    \/ loadMessagesStep
    \/ addSuccess
    \/ addError
    \/ \E d \in StoreDevices, p \in StorePayloads : handleIncomingMessage(d, p)
    \/ \E a \in StoreScans : scanForPeers(a)
    \/ \E a \in StoreScans, d \in StoreDevices : deviceChosen(a, d)
    \/ \E a \in StoreScans : gattConnected(a)
    \/ \E a \in StoreScans : serviceFound(a)
    \/ \E a \in StoreScans : characteristicFound(a)
    \/ \E a \in StoreScans : notificationsStarted(a)
    \/ \E a \in StoreScans : scanFailed(a)
    \/ \E d \in StoreDevices : gattServerDisconnected(d)
    \/ \E s \in StoreSends, input \in Inputs, t \in LinkTimes : sendMessage(s, input, t)
    \/ \E s \in StoreSends, ok \in BOOLEAN : writeDone(s, ok)

SpecStore == Init /\ [][NextStore]_vars

\* The message log across page loads: the payloads that differ in timestamp, in 'id'
\* or in having a timestamp at all, one scan that succeeds, one send, and the
\* reload that replays the log.
ReplayPayloads ==
    {JSONstringify(Msg("bob", Hi, t)) : t \in Timestamps}
    \cup {JSONstringify(Put(Msg("bob", Hi, 1), "id", k)) : k \in Ids}
    \cup {JSONstringify([sender |-> "bob", text |-> Hi])}

NextReplay ==
    \/ initDBSuccess
    \/ initDBError
    \/ loadProfileSuccess
    \/ loadMessagesStep
    \/ addSuccess
    \/ addError
    \/ \E d \in StoreDevices, p \in ReplayPayloads : handleIncomingMessage(d, p)
    \/ \E a \in StoreScans : scanForPeers(a)
    \/ \E a \in StoreScans, d \in StoreDevices : deviceChosen(a, d)
    \/ \E a \in StoreScans : gattConnected(a)
    \/ \E a \in StoreScans : serviceFound(a)
    \/ \E a \in StoreScans : characteristicFound(a)
    \/ \E a \in StoreScans : notificationsStarted(a)
    \/ \E s \in StoreSends, input \in Inputs, t \in Timestamps : sendMessage(s, input, t)
    \/ \E s \in StoreSends, ok \in BOOLEAN : writeDone(s, ok)
    \/ pageReload

SpecReplay == Init /\ [][NextReplay]_vars

\* The order of the writes: two sends in progress at once, two scans, link
\* loss, one reading of the clock, no inbound notification and no reload.
OrderSends == SendSlots

NextOrder ==
    \/ initDBSuccess
    \/ initDBError
    \/ loadProfileSuccess
    \/ loadMessagesStep
    \/ addSuccess
    \/ addError
    \/ \E a \in CastScans : scanForPeers(a)
    \/ \E a \in CastScans, d \in Devices : deviceChosen(a, d)
    \/ \E a \in CastScans : gattConnected(a)
    \/ \E a \in CastScans : serviceFound(a)
    \/ \E a \in CastScans : characteristicFound(a)
    \/ \E a \in CastScans : notificationsStarted(a)
    \/ \E a \in CastScans : scanFailed(a)
    \/ \E d \in Devices : gattServerDisconnected(d)
    \/ \E s \in OrderSends, input \in Inputs, t \in LinkTimes : sendMessage(s, input, t)
    \/ \E s \in OrderSends, ok \in BOOLEAN : writeDone(s, ok)

SpecOrder == Init /\ [][NextOrder]_vars

\* ------------------------------------------------------------------ claims
EntriesOf(map, d) == {i \in 1..Len(map) : map[i].id = d}
LiveIds(map) == {map[i].id : i \in {j \in 1..Len(map) : map[j] # Empty}}
WrittenBy(log, s) == {log[i].to : i \in {j \in 1..Len(log) : log[j].send = s}}
SaveFeed == SelectSeq(feed, LAMBDA b : b.via = "save")
LoadFeed == SelectSeq(feed, LAMBDA b : b.via = "load")
Required == {"sender", "text", "timestamp"}

\* the record is the message with the key the store gave it
Stores(record, message) ==
    /\ DOMAIN record = DOMAIN message \cup {"id"}
    /\ \A f \in DOMAIN message : record[f] = message[f]

\* C1: a connect for a deviceId that is in the registry ends as 'already
\* connected' and leaves the registry as it was; the registry never holds two
\* entries for one deviceId, and when a connect completes it holds exactly one.
C1_AlreadyConnectedOneEntry ==
    /\ [](\A d \in Devices : Cardinality(EntriesOf(connectedPeers, d)) <= 1)
    /\ [][\A a \in ScanIds, d \in Devices :
            /\ (deviceChosen(a, d) /\ MapHas(d))
                  => (scans'[a].pc = "already" /\ connectedPeers' = connectedPeers)
            /\ (scans[a].pc = "notify" /\ scans[a].device = d /\ scans'[a].pc = "ready")
                  => Cardinality(EntriesOf(connectedPeers', d)) = 1]_vars

\* a second connect found the device registered, the first link still active
C1_Witness ==
    \E a, b \in ScanIds :
        /\ scans[a].pc = "ready"
        /\ scans[b].pc = "already"
        /\ Cardinality(EntriesOf(connectedPeers, "d1")) = 1
        /\ "d1" \in linkUp

\* C2: a write that fails is logged once, for its peer, and the loop goes on:
\* the call never ends in an exception, and when it ends every peer still
\* registered has had its write issued.
C2_WriteFailureIsolated ==
    [][/\ \A s \in SendIds :
            /\ writeDone(s, FALSE)
                  => failures' = Append(failures, [send |-> s, to |-> sends[s].peer.id])
            /\ sends[s].pc = "awaiting"
                  => /\ sends'[s].pc \in {"awaiting", "done"}
                     /\ sends'[s].pc = "done"
                           => LiveIds(connectedPeers') \subseteq WrittenBy(writes', s)
       /\ (\A s \in SendIds : ~writeDone(s, FALSE)) => failures' = failures]_vars

\* two peers, the write to the first failed, the second was written all the same
C2_Witness ==
    \E s \in SendIds :
        /\ sends[s].pc = "done"
        /\ MapSize = 2
        /\ Len(writes) = 2
        /\ writes[1].to # writes[2].to
        /\ failures = <<[send |-> s, to |-> writes[1].to]>>

\* C3: when sendMessage first suspends, the write has been issued to every
\* registered peer (all writes are issued before any is awaited).
C3_AllWritesIssuedBeforeAwait ==
    [][\A s \in SendIds :
          (sends[s].pc = "idle" /\ sends'[s].pc = "awaiting")
              => LiveIds(connectedPeers) \subseteq WrittenBy(writes', s)]_vars

\* C4: a write of a message is issued only once the store append of that
\* message has completed successfully.
C4_PersistBeforeBroadcast ==
    \A i \in 1..Len(writes) : sends[writes[i].send].saved = "stored"

C6_IdsIncreaseInAppendOrder ==
    \A i, j \in 1..Len(messages) : i < j => messages[i].id < messages[j].id

\* the payloads that decode to a message whose sender is a local username
LocalPayloads ==
    {p \in StorePayloads : /\ JSONparse(p).kind = "object"
                      /\ Get(JSONparse(p).value, "sender") \in LocalNames}

\* C7: a payload whose decoded sender is the local username requests no store
\* append and renders nothing.
C7_SelfEchoDropped ==
    [][\A p \in LocalPayloads :
          userProfile.username = JSONparse(p).value.sender
              => \A d \in Devices :
                    handleIncomingMessage(d, p) => UNCHANGED <<addQueue, messages, feed>>]_vars

\* an echo arrived over a registered link and was dropped
C7_Witness ==
    /\ inboundLog = "echo"
    /\ userProfile.username \in LocalNames
    /\ MapSize = 1
    /\ addQueue = << >>

\* C8: no partially populated message is stored, queued for the store or
\* rendered: every one has sender, text and timestamp.
C8_NoPartialMessage ==
    /\ \A i \in 1..Len(messages) : Required \subseteq DOMAIN messages[i]
    /\ \A i \in 1..Len(addQueue) : Required \subseteq DOMAIN addQueue[i].message
    /\ \A i \in 1..Len(feed) : Required \subseteq DOMAIN feed[i].msg

\* C9: replay shows the records in ascending timestamp order, records of equal
\* timestamp in ascending id order.
C9_ReplayOrdered ==
    \A i, j \in 1..Len(LoadFeed) :
        i < j => KeyLess(<<LoadFeed[i].msg.timestamp, LoadFeed[i].msg.id>>,
                         <<LoadFeed[j].msg.timestamp, LoadFeed[j].msg.id>>)

\* the later appended record has the earlier timestamp and is replayed first
C9_Witness ==
    /\ cursor.state = "done"
    /\ Len(messages) = 2
    /\ \A i \in 1..2 : Has(messages[i], "timestamp")
    /\ messages[1].timestamp > messages[2].timestamp
    /\ Len(LoadFeed) = 2
    /\ LoadFeed[1].msg = messages[2]

\* C10: once replay has finished (and before this page load appends anything),
\* every record of the store has been shown exactly once.
C10_ReplayComplete ==
    (cursor.state = "done" /\ SaveFeed = << >>)
        => \A i \in 1..Len(messages) :
              Cardinality({k \in 1..Len(LoadFeed) : LoadFeed[k].msg = messages[i]}) = 1

\* C11: once the transport has dropped a device's link the registry holds no
\* entry for it (the entry goes in the very step of the link loss, also when a
\* connect sequence for the device is still running), and every write is
\* issued to a device whose link is open.
C11_LinkLossUnregisters ==
    /\ [](LiveIds(connectedPeers) \subseteq linkUp)
    /\ [][Len(writes') > Len(writes) => writes'[Len(writes')].to \in linkUp']_vars

\* the registered device lost its link, and the send after that wrote to nobody
C11_Witness ==
    /\ \E a \in ScanIds : scans[a].pc = "ready"
    /\ Len(connectedPeers) = 1
    /\ MapSize = 0
    /\ linkUp = {}
    /\ \E s \in SendIds : sends[s].pc = "done" /\ sends[s].saved # "none"
    /\ writes = << >>

\* C12: a connect sequence that fails at any step inserts nothing and leaves
\* the registry as it was: every entry belongs to an attempt that ran to the
\* end, and the step in which an attempt fails does not change the registry.
C12_FailedConnectLeavesRegistry ==
    /\ [](\A i \in 1..Len(connectedPeers) :
            connectedPeers[i] # Empty => scans[connectedPeers[i].link].pc = "ready")
    /\ [][\A a \in ScanIds :
            scans[a].pc # "failed" /\ scans'[a].pc = "failed"
                => connectedPeers' = connectedPeers]_vars

\* an attempt failed after its link had been opened, beside a registered device
C12_Witness ==
    /\ \E a \in ScanIds : scans[a].pc = "failed"
    /\ \E a \in ScanIds : scans[a].pc = "ready"
    /\ MapSize = 1
    /\ linkUp = Devices

Blank(input) == \A i \in 1..Len(input) : input[i] = " "

\* C13: sendMessage with an empty or whitespace-only text, or with no username
\* in the profile, is a no-op: the store and its pending appends are unchanged,
\* nothing is rendered and no write is issued.
C13_RejectedSendIsNoOp ==
    [][\A s \in SendIds, input \in Inputs, t \in LinkTimes :
          /\ sendMessage(s, input, t)
          /\ Blank(input) \/ ~(userProfile.username \in LocalNames)
          => UNCHANGED <<messages, keyGen, addQueue, feed, writes, failures>>]_vars

\* a send was rejected while a peer was registered and the profile was set
C13_Witness ==
    /\ \E s \in SendIds : sends[s].pc = "rejected"
    /\ userProfile.username \in LocalNames
    /\ MapSize >= 1
    /\ messages = << >> /\ addQueue = << >> /\ feed = << >> /\ writes = << >>

\* C14: every message whose append succeeds is rendered exactly once, and the
\* renders follow the order in which the appends were requested, local sends
\* and inbound notifications alike: a new request goes behind the pending
\* ones, and a render is always for the oldest pending request, which it ends.
C14_RenderedOnceInAcceptOrder ==
    /\ [](Len(SaveFeed) = Len(messages))
    /\ [][Len(addQueue') > Len(addQueue)
            => /\ Len(addQueue') = Len(addQueue) + 1
               /\ SubSeq(addQueue', 1, Len(addQueue)) = addQueue]_vars
    /\ [][Len(SaveFeed') > Len(SaveFeed)
            => /\ addQueue # << >>
               /\ addQueue' = Tail(addQueue)
               /\ SaveFeed' = Append(SaveFeed,
                                     [msg |-> Head(addQueue).message,
                                      me  |-> Head(addQueue).isMe = "true",
                                      via |-> "save"])]_vars

\* an inbound message and a local one were rendered, the inbound one first
C14_Witness ==
    /\ Len(SaveFeed) = 2
    /\ ~SaveFeed[1].me
    /\ SaveFeed[2].me
    /\ \E s \in SendIds : sends[s].saved = "stored"
    /\ addQueue = << >>

\* C15: a local message that sendMessage accepted is in the store once its
\* append has succeeded and stays there, whatever the peer writes do (all
\* failing, or no peer at all): an accepted message is pending in the append
\* queue, or its append failed, or it is a record of the store, and the store
\* never loses or alters a record.
C15_AcceptedLocalMessageKept ==
    /\ [](\A s \in SendIds :
            sends[s].pc \in {"awaiting", "done"}
                => \/ sends[s].saved = "failed"
                   \/ /\ sends[s].saved = "pending"
                      /\ \E i \in 1..Len(addQueue) :
                            /\ addQueue[i].send = s
                            /\ addQueue[i].message = sends[s].message
                   \/ /\ sends[s].saved = "stored"
                      /\ \E i \in 1..Len(messages) :
                            Stores(messages[i], sends[s].message))
    /\ [][/\ Len(messages') >= Len(messages)
          /\ SubSeq(messages', 1, Len(messages)) = messages]_vars

\* the message is stored although the write to each of the two peers failed
C15_Witness ==
    \E s \in SendIds :
        /\ sends[s].pc = "done"
        /\ sends[s].saved = "stored"
        /\ Len(writes) = 2
        /\ Len(failures) = 2
        /\ \E i \in 1..Len(messages) : Stores(messages[i], sends[s].message)

\* C16: the payload of every write, decoded as the receive path decodes it,
\* is an object with exactly the fields sender, text and timestamp, each
\* with the value the composed message has; it carries no id.
C16_PayloadRoundTrip ==
    \A i \in 1..Len(writes) :
        LET r == JSONparse(writes[i].data)
            message == sends[writes[i].send].message
        IN /\ r.kind = "object"
           /\ DOMAIN r.value = Required
           /\ \A f \in Required : r.value[f] = message[f]
           /\ r.value.sender \in LocalNames
           /\ r.value.text = Hi

\* the message went out to a peer after its append had given the record an id
C16_Witness ==
    /\ Len(writes) = 2
    /\ Len(messages) = 1
    /\ Has(messages[1], "id")
    /\ sends[writes[2].send].saved = "stored"
    /\ JSONparse(writes[2].data).value = sends[writes[2].send].message

\* C17: a device is in the registry only while its notification subscription
\* is established and its link is open, and every write is issued to such a
\* device, through an entry whose connect sequence has run to the end; never
\* to a device that is still connecting or that was removed after link loss.
C17_WritesOnlyToReadyLinks ==
    /\ [](LiveIds(connectedPeers) \subseteq subscribed)
    /\ [][Len(writes') > Len(writes)
            => LET w == writes'[Len(writes')]
               IN /\ w.to \in subscribed /\ w.to \in linkUp
                  /\ w.to \in LiveIds(connectedPeers)
                  /\ scans[w.link].pc = "ready"]_vars

\* a write went to the registered device while the other device was still
\* in its connect sequence
C17_Witness ==
    /\ Len(writes) = 1
    /\ writes[1].to \in subscribed
    /\ MapSize = 1
    /\ \E a \in ScanIds : scans[a].pc \in {"service", "characteristic", "notify"}
                          /\ scans[a].device # writes[1].to

\* C18: connects for one device exclude each other: an attempt that reaches
\* the insert finds no entry for its device, so an insert never replaces an
\* entry already present.
C18_InsertNeverReplaces ==
    [][\A a \in ScanIds :
          scans[a].pc = "notify" /\ scans'[a].pc = "ready"
              => ~MapHas(scans[a].device)]_vars

\* the position in the write log of the first write of send s, which
\* sendMessage issues in the turn that composes the message
FirstWrite(s) ==
    CHOOSE i \in 1..Len(writes) :
        writes[i].send = s /\ \A j \in 1..(i - 1) : writes[j].send # s

\* C19: the writes that a peer which stays registered gets from different
\* sends are issued in the order in which the messages were composed, also
\* when a send starts while another is awaiting its write to another peer.
C19_PerPeerWriteOrder ==
    \A i, j \in 1..Len(writes) :
        /\ i < j
        /\ writes[i].to = writes[j].to
        /\ writes[i].link = writes[j].link
        /\ writes[i].send # writes[j].send
        /\ \E k \in 1..Len(connectedPeers) :
              connectedPeers[k] = [id |-> writes[i].to, link |-> writes[i].link]
        => FirstWrite(writes[i].send) < FirstWrite(writes[j].send)

\* C20: during the replay at startup a stored message is rendered as 'mine'
\* exactly if its sender is the username of the stored profile, also while
\* the profile request that was started together with the scan of the log
\* has not completed yet.
C20_ReplayClassifiedByProfile ==
    (profileReq = "pending" /\ profileStore # {})
        => \A k \in 1..Len(LoadFeed) :
              LoadFeed[k].me
                  = (\E p \in profileStore :
                        Get(LoadFeed[k].msg, "sender") = p.username)
====
